---- MODULE Spec2Model ----
(***************************************************************************)
(* The preprocessing pipeline of the data explorer (src/app.py): the live  *)
(* pandas DataFrame self.df, the audit trail self.operation_history, the   *)
(* single-step handlers of MainWindow and the replay of a saved pipeline   *)
(* through MainWindow._execute_operation.                                   *)
(*                                                                         *)
(* Representation.  A DataFrame is a record [none, index, cols]: `none' is *)
(* TRUE for self.df = None, `index' is the sequence of row labels and      *)
(* `cols' the sequence of columns in order, each [name, dtype, vals]; the  *)
(* sequence form lets two columns carry the same name, as pandas does.     *)
(* A cell is Num(n), Str(s) or NaN.  Numbers live on the integer grid: a   *)
(* real-valued statistic (mean, median, bound, scaled value) is rounded    *)
(* down onto the grid, comparisons against bounds are exact.               *)
(***************************************************************************)
EXTENDS Integers, Sequences, FiniteSets, TLC

(***************************************************************************)
(* Cells and sequences                                                     *)
(***************************************************************************)
Num(n) == [k |-> "num", n |-> n, s |-> ""]

Str(s) == [k |-> "str", n |-> 0, s |-> s]

NaN == [k |-> "nan", n |-> 0, s |-> ""]

IsNull(v) == v.k = "nan"

Range(s) == {s[i] : i \in 1..Len(s)}

InSeq(x, s) == \E i \in 1..Len(s) : s[i] = x

RECURSIVE SumSeq(_)
SumSeq(s) == IF s = <<>> THEN 0 ELSE Head(s) + SumSeq(Tail(s))

RECURSIVE PickRows(_, _)
PickRows(s, keep) ==
    IF s = <<>> THEN <<>>
    ELSE (IF Head(keep) THEN <<Head(s)>> ELSE <<>>) \o PickRows(Tail(s), Tail(keep))

RECURSIVE Flatten(_)
Flatten(ss) == IF ss = <<>> THEN <<>> ELSE Head(ss) \o Flatten(Tail(ss))

\* The strings that occur in the modelled data, in lexicographic order.
Lexicon == <<"5", "abc", "x", "y">>

StrRank(s) == IF InSeq(s, Lexicon) THEN CHOOSE i \in 1..Len(Lexicon) : Lexicon[i] = s ELSE 0

\* Sort order of cell values: numbers by value, then strings, NaN last.
ValLess(a, b) ==
    CASE a.k = "num" /\ b.k = "num" -> a.n < b.n
      [] a.k = "str" /\ b.k = "str" -> StrRank(a.s) < StrRank(b.s)
      [] OTHER -> (a.k = "num" /\ b.k # "num") \/ (a.k = "str" /\ b.k = "nan")

RECURSIVE SetToSortedSeq(_)
SetToSortedSeq(S) ==
    IF S = {} THEN <<>>
    ELSE LET m == CHOOSE x \in S : \A z \in S \ {x} : ValLess(x, z)
         IN <<m>> \o SetToSortedSeq(S \ {m})

\* float("5"), int("5"): the texts that parse as a number.
ParsesAsNumber(t) == t \in {"5"}

ParseNumber(t) == IF t = "5" THEN 5 ELSE 0

(***************************************************************************)
(* pandas: the DataFrame operations the handlers use                       *)
(***************************************************************************)
NoneDF == [none |-> TRUE, index |-> <<>>, cols |-> <<>>]

MkCol(name, dtype, vals) == [name |-> name, dtype |-> dtype, vals |-> vals]

NRows(df) == Len(df.index)

\* df.columns
Columns(df) == [i \in 1..Len(df.cols) |-> df.cols[i].name]

HasCol(df, c) == \E i \in 1..Len(df.cols) : df.cols[i].name = c

\* df[c] read: the (first) column labelled c.
GetCol(df, c) ==
    df.cols[CHOOSE i \in 1..Len(df.cols) :
                /\ df.cols[i].name = c
                /\ \A j \in 1..(i - 1) : df.cols[j].name # c]

\* df[c] = values: every column labelled c is overwritten in place; a new
\* label is appended as the last column.
SetCol(df, c, dtype, vals) ==
    IF HasCol(df, c)
    THEN [df EXCEPT !.cols = [i \in 1..Len(df.cols) |->
                 IF df.cols[i].name = c THEN MkCol(c, dtype, vals) ELSE df.cols[i]]]
    ELSE [df EXCEPT !.cols = Append(df.cols, MkCol(c, dtype, vals))]

\* df.drop(columns=names) once every label is known to be present.
DropColumns(df, names) ==
    [df EXCEPT !.cols = SelectSeq(df.cols, LAMBDA col : ~InSeq(col.name, names))]

\* Boolean-mask row selection: labels and cells of the kept rows, in order.
FilterRows(df, keep) ==
    [df EXCEPT !.index = PickRows(df.index, keep),
               !.cols = [i \in 1..Len(df.cols) |->
                            [df.cols[i] EXCEPT !.vals = PickRows(@, keep)]]]

RowAt(df, r) == [i \in 1..Len(df.cols) |-> df.cols[i].vals[r]]

\* df.duplicated(): a row equal, in every column, to an earlier row.
Duplicated(df) ==
    [r \in 1..NRows(df) |-> \E q \in 1..(r - 1) : RowAt(df, q) = RowAt(df, r)]

DuplicatedSum(df) == Cardinality({r \in 1..NRows(df) : Duplicated(df)[r]})

\* drop_duplicates as it would be with keep='last'.
DropDuplicatesKeepLast(df) ==
    FilterRows(df, [r \in 1..NRows(df) |->
                       ~\E q \in (r + 1)..NRows(df) : RowAt(df, q) = RowAt(df, r)])

\* df.drop_duplicates(): keep='first', row labels kept.
DropDuplicates(df) ==
    LET dup == Duplicated(df)
    IN FilterRows(df, [r \in 1..NRows(df) |-> ~dup[r]])

\* df.reset_index(drop=True)
ResetIndex(df) == [df EXCEPT !.index = [i \in 1..NRows(df) |-> i - 1]]

\* df.dropna(subset=[c]) once c is known to be present.
DropNa(df, c) ==
    LET v == GetCol(df, c).vals
    IN FilterRows(df, [r \in 1..NRows(df) |-> ~IsNull(v[r])])

\* series.fillna(value): dtype is the dtype of the result.
FillNa(vals, value) == [i \in 1..Len(vals) |-> IF IsNull(vals[i]) THEN value ELSE vals[i]]

HasNull(vals) == \E i \in 1..Len(vals) : IsNull(vals[i])

HasStr(vals) == \E i \in 1..Len(vals) : vals[i].k = "str"

\* pd.api.types.is_numeric_dtype / select_dtypes(include=np.number)
IsNumericDtype(dtype) == dtype \in {"int64", "float64"}

NumericCols(df, names) ==
    SelectSeq(names, LAMBDA c : IsNumericDtype(GetCol(df, c).dtype))

\* The non-missing numbers of a column, in row order.
Nums(vals) ==
    LET nn == SelectSeq(vals, LAMBDA v : v.k = "num")
    IN [i \in 1..Len(nn) |-> nn[i].n]

SortedNums(vals) == SortSeq(Nums(vals), LAMBDA a, b : a < b)

\* series.mean(): NaN for an all-missing column.
Mean(vals) ==
    LET xs == Nums(vals)
    IN IF xs = <<>> THEN NaN ELSE Num(SumSeq(xs) \div Len(xs))

\* series.median()
Median(vals) ==
    LET xs == SortedNums(vals)
        n == Len(xs)
    IN IF n = 0 THEN NaN
       ELSE IF n % 2 = 1 THEN Num(xs[(n + 1) \div 2])
       ELSE Num((xs[n \div 2] + xs[n \div 2 + 1]) \div 2)

\* series.mode(): the most frequent non-missing values, sorted; <<>> when
\* every cell is missing, and then mode()[0] raises.
Mode(vals) ==
    LET present == {vals[i] : i \in {j \in 1..Len(vals) : ~IsNull(vals[j])}}
        count(v) == Cardinality({i \in 1..Len(vals) : vals[i] = v})
        best == {v \in present : \A w \in present : count(w) <= count(v)}
    IN SetToSortedSeq(best)

\* q * series.quantile(p / q) for a non-empty sorted xs (linear interpolation).
QuantileTimes(xs, p, q) ==
    LET pos == p * (Len(xs) - 1)
        i == pos \div q
        r == pos % q
    IN IF r = 0 THEN q * xs[i + 1]
       ELSE q * xs[i + 1] + r * (xs[i + 2] - xs[i + 1])

(***************************************************************************)
(* Outcome of a block of code that may raise: the DataFrame at the point   *)
(* where it ended and whether an exception left it.                        *)
(***************************************************************************)
Ok(df) == [df |-> df, exc |-> FALSE]

Raise(df) == [df |-> df, exc |-> TRUE]

(***************************************************************************)
(* Imputation                                                              *)
(***************************************************************************)
\* dtype.type(constant_val) raises ValueError: a numeric dtype and a text
\* that is no number.
CoerceFails(dtype, text) == IsNumericDtype(dtype) /\ ~ParsesAsNumber(text)

\* dtype.type(constant_val): np.float64("5"), np.object_("abc").
Coerce(dtype, text) == IF IsNumericDtype(dtype) THEN Num(ParseNumber(text)) ELSE Str(text)

\* series.fillna(text) on a column: filling a numeric column with a string
\* turns it into an object column.
FillWithText(col, text) ==
    IF HasNull(col.vals)
    THEN MkCol(col.name, "object", FillNa(col.vals, Str(text)))
    ELSE col

AssignCol(df, col) == SetCol(df, col.name, col.dtype, col.vals)

\* One pass of the column loop of apply_imputation (KNN is not in the loop).
ImputeColumn(df, c, method, text) ==
    LET col == GetCol(df, c)
    IN CASE method = "Remove Rows with Missing Values" -> Ok(DropNa(df, c))
         [] method = "Fill with Mean" ->
               IF IsNumericDtype(col.dtype)
               THEN Ok(SetCol(df, c, col.dtype, FillNa(col.vals, Mean(col.vals))))
               ELSE Ok(df)
         [] method = "Fill with Median" ->
               IF IsNumericDtype(col.dtype)
               THEN Ok(SetCol(df, c, col.dtype, FillNa(col.vals, Median(col.vals))))
               ELSE Ok(df)
         [] method = "Fill with Mode" ->
               IF Mode(col.vals) = <<>> THEN Raise(df)
               ELSE Ok(SetCol(df, c, col.dtype, FillNa(col.vals, Mode(col.vals)[1])))
         [] method = "Fill with Constant" ->
               IF CoerceFails(col.dtype, text)
               THEN Ok(AssignCol(df, FillWithText(col, text)))
               ELSE Ok(SetCol(df, c, col.dtype, FillNa(col.vals, Coerce(col.dtype, text))))
         [] OTHER -> Ok(df)

RECURSIVE ImputeLoop(_, _, _, _)
ImputeLoop(df, columns, method, text) ==
    IF columns = <<>> THEN Ok(df)
    ELSE LET r == ImputeColumn(df, Head(columns), method, text)
         IN IF r.exc THEN r ELSE ImputeLoop(r.df, Tail(columns), method, text)

\* KNNImputer(n_neighbors=k).fit_transform over the numeric columns, for
\* k at least the number of rows: every donor is a neighbour, so a missing
\* cell receives the mean of its column.  A column with no value at all is
\* dropped by the imputer and the assignment back raises.
KnnImpute(df, numeric_cols) ==
    IF numeric_cols = <<>> \/ \E i \in 1..Len(numeric_cols) : Nums(GetCol(df, numeric_cols[i]).vals) = <<>>
    THEN Raise(df)
    ELSE Ok([df EXCEPT !.cols = [i \in 1..Len(df.cols) |->
                IF InSeq(df.cols[i].name, numeric_cols)
                THEN MkCol(df.cols[i].name, "float64", FillNa(df.cols[i].vals, Mean(df.cols[i].vals)))
                ELSE df.cols[i]]])

\* The apply_imputation branch of _execute_operation, one pass of its loop.
ReplayImputeColumn(df, c, op) ==
    IF ~HasCol(df, c) THEN Raise(df)
    ELSE LET col == GetCol(df, c)
             method == op.method
         IN CASE method = "Remove Rows with Missing Values" -> Ok(DropNa(df, c))
              [] method = "Fill with Mean" ->
                    IF HasStr(col.vals) THEN Raise(df)
                    ELSE Ok(SetCol(df, c, col.dtype, FillNa(col.vals, Mean(col.vals))))
              [] method = "Fill with Median" ->
                    IF HasStr(col.vals) THEN Raise(df)
                    ELSE Ok(SetCol(df, c, col.dtype, FillNa(col.vals, Median(col.vals))))
              [] method = "Fill with Mode" ->
                    IF Mode(col.vals) = <<>> THEN Raise(df)
                    ELSE Ok(SetCol(df, c, col.dtype, FillNa(col.vals, Mode(col.vals)[1])))
              [] method = "Fill with Constant" ->
                    IF CoerceFails(col.dtype, op.constant_value) THEN Raise(df)
                    ELSE Ok(SetCol(df, c, col.dtype,
                                   FillNa(col.vals, Coerce(col.dtype, op.constant_value))))
              [] OTHER -> Ok(df)

RECURSIVE ReplayImputeLoop(_, _, _)
ReplayImputeLoop(df, columns, op) ==
    IF columns = <<>> THEN Ok(df)
    ELSE LET r == ReplayImputeColumn(df, Head(columns), op)
         IN IF r.exc THEN r ELSE ReplayImputeLoop(r.df, Tail(columns), op)

\* The KNN pass of the replay loop: self.df[columns] raises for an absent
\* label; the numeric ones among them are imputed, then `break'.
ReplayKnn(df, columns) ==
    IF \E i \in 1..Len(columns) : ~HasCol(df, columns[i]) THEN Raise(df)
    ELSE KnnImpute(df, NumericCols(df, columns))

(***************************************************************************)
(* Dtype conversion                                                        *)
(***************************************************************************)
\* series.astype(target_type) raises: a missing cell cannot become int64, a
\* text that is no number cannot become int64 or float64.
AstypeFails(col, target_type) ==
    \/ target_type = "int64" /\ HasNull(col.vals)
    \/ /\ target_type \in {"int64", "float64"}
       /\ \E i \in 1..Len(col.vals) : col.vals[i].k = "str" /\ ~ParsesAsNumber(col.vals[i].s)

Astype(col, target_type) ==
    IF target_type = "object" THEN MkCol(col.name, "object", col.vals)
    ELSE MkCol(col.name, target_type,
               [i \in 1..Len(col.vals) |->
                   IF col.vals[i].k = "str" THEN Num(ParseNumber(col.vals[i].s)) ELSE col.vals[i]])

(***************************************************************************)
(* Missing-value threshold                                                 *)
(***************************************************************************)
NullCount(vals) == Cardinality({i \in 1..Len(vals) : IsNull(vals[i])})

\* The threshold filter as it would be with >= in place of >.
ColsAtOrOverThreshold(df, threshold) ==
    LET over == SelectSeq(df.cols, LAMBDA col :
                    NRows(df) > 0 /\ NullCount(col.vals) * 100 >= threshold * NRows(df))
    IN [i \in 1..Len(over) |-> over[i].name]

\* missing_percent[missing_percent > threshold].index.tolist(), with
\* missing_percent = df.isnull().sum() / len(df) * 100; 0 / 0 is NaN and
\* compares False.
ColsOverThreshold(df, threshold) ==
    LET over == SelectSeq(df.cols, LAMBDA col :
                    NRows(df) > 0 /\ NullCount(col.vals) * 100 > threshold * NRows(df))
    IN [i \in 1..Len(over) |-> over[i].name]

(***************************************************************************)
(* Outliers.  The threshold is kept in tenths (15 is 1.5).                 *)
(***************************************************************************)
\* float(text) raises ValueError.
ThresholdTextInvalid(text) == text \notin {"1", "1.5"}

ParseTenths(text) == IF text = "1" THEN 10 ELSE 15

SumSqDev(xs) ==
    LET n == Len(xs)
        s == SumSeq(xs)
    IN SumSeq([i \in 1..n |-> (n * xs[i] - s) * (n * xs[i] - s)])

\* x > upper_bound for the bounds fitted on vals (exact).
Above(vals, method, t, x) ==
    LET xs == SortedNums(vals)
        n == Len(xs)
    IN IF method = "IQR"
       THEN /\ n > 0
            /\ 40 * x > 10 * QuantileTimes(xs, 3, 4)
                         + t * (QuantileTimes(xs, 3, 4) - QuantileTimes(xs, 1, 4))
       ELSE /\ n > 1
            /\ n * x - SumSeq(xs) > 0
            /\ 100 * (n - 1) * (n * x - SumSeq(xs)) * (n * x - SumSeq(xs)) > t * t * SumSqDev(xs)

\* x < lower_bound for the bounds fitted on vals (exact).
Below(vals, method, t, x) ==
    LET xs == SortedNums(vals)
        n == Len(xs)
    IN IF method = "IQR"
       THEN /\ n > 0
            /\ 40 * x < 10 * QuantileTimes(xs, 1, 4)
                         - t * (QuantileTimes(xs, 3, 4) - QuantileTimes(xs, 1, 4))
       ELSE /\ n > 1
            /\ n * x - SumSeq(xs) < 0
            /\ 100 * (n - 1) * (n * x - SumSeq(xs)) * (n * x - SumSeq(xs)) > t * t * SumSqDev(xs)

\* outlier_mask = (df[col] < lower_bound) | (df[col] > upper_bound)
OutlierMask(vals, method, t) ==
    [i \in 1..Len(vals) |->
        /\ vals[i].k = "num"
        /\ (Below(vals, method, t, vals[i].n) \/ Above(vals, method, t, vals[i].n))]

HasOutlier(vals, method, t) == \E i \in 1..Len(vals) : OutlierMask(vals, method, t)[i]

\* upper_bound and lower_bound on the grid: the last value not above the
\* upper bound, the first value not below the lower bound.
UpperCap(vals, method, t) ==
    LET xs == SortedNums(vals)
    IN CHOOSE v \in xs[1]..xs[Len(xs)] :
           ~Above(vals, method, t, v) /\ Above(vals, method, t, v + 1)

LowerCap(vals, method, t) ==
    LET xs == SortedNums(vals)
    IN CHOOSE v \in xs[1]..xs[Len(xs)] :
           ~Below(vals, method, t, v) /\ Below(vals, method, t, v - 1)

\* temp_capped_series: out-of-bound cells set to the bound.
Capped(col, method, t) ==
    IF ~HasOutlier(col.vals, method, t) THEN col
    ELSE MkCol(col.name, "float64",
               [i \in 1..Len(col.vals) |->
                   IF col.vals[i].k # "num" THEN col.vals[i]
                   ELSE IF Below(col.vals, method, t, col.vals[i].n)
                        THEN Num(LowerCap(col.vals, method, t))
                   ELSE IF Above(col.vals, method, t, col.vals[i].n)
                        THEN Num(UpperCap(col.vals, method, t))
                   ELSE col.vals[i]])

\* total_outlier_indices as it would be if a row had to be out of bounds in
\* every processed column.
OutlierLabelsInEveryColumn(df, numeric_cols, method, t) ==
    {df.index[r] : r \in {q \in 1..NRows(df) :
        \A i \in 1..Len(numeric_cols) :
            OutlierMask(GetCol(df, numeric_cols[i]).vals, method, t)[q]}}

\* total_outlier_indices: the labels of the rows out of bounds in a column.
OutlierLabels(df, numeric_cols, method, t) ==
    {df.index[r] : r \in {q \in 1..NRows(df) :
        \E i \in 1..Len(numeric_cols) :
            OutlierMask(GetCol(df, numeric_cols[i]).vals, method, t)[q]}}

\* df.drop(index=labels)
DropLabels(df, labels) ==
    FilterRows(df, [r \in 1..NRows(df) |-> df.index[r] \notin labels])

(***************************************************************************)
(* Scaling: sklearn scalers fit and transform one feature at a time;       *)
(* missing cells stay missing, the result is float64.                      *)
(***************************************************************************)
\* floor(num * sqrt(n) / sqrt(ss)) for ss > 0, found on the grid.
FloorRatioSqrt(num, n, ss) ==
    IF num >= 0
    THEN CHOOSE z \in 0..(n + 1) : z * z * ss <= num * num * n /\ (z + 1) * (z + 1) * ss > num * num * n
    ELSE -(CHOOSE z \in 0..(n + 1) : z * z * ss >= num * num * n
                                     /\ (z = 0 \/ (z - 1) * (z - 1) * ss < num * num * n))

\* StandardScaler: (x - mean) / std, population std, a zero std scales by 1.
StandardScale(xs, x) ==
    LET n == Len(xs)
        d == n * x - SumSeq(xs)
    IN IF SumSqDev(xs) = 0 THEN d \div n ELSE FloorRatioSqrt(d, n, SumSqDev(xs))

\* MinMaxScaler: (x - min) / (max - min), a zero range scales by 1.
MinMaxScale(xs, x) ==
    LET s == SortSeq(xs, LAMBDA a, b : a < b)
    IN IF s[Len(s)] = s[1] THEN x - s[1] ELSE (x - s[1]) \div (s[Len(s)] - s[1])

\* RobustScaler: (x - median) / (q75 - q25), a zero range scales by 1.
RobustScale(xs, x) ==
    LET s == SortSeq(xs, LAMBDA a, b : a < b)
        iqr4 == QuantileTimes(s, 3, 4) - QuantileTimes(s, 1, 4)
        med2 == QuantileTimes(s, 1, 2)
    IN IF iqr4 = 0 THEN (2 * x - med2) \div 2 ELSE (2 * (2 * x - med2)) \div iqr4

KnownScaler(method) == method \in {"StandardScaler", "MinMaxScaler", "RobustScaler"}

\* scaler.fit_transform(df[[col]]) once col is known to hold no string.
Scaled(col, method) ==
    LET xs == Nums(col.vals)
    IN MkCol(col.name, "float64",
             [i \in 1..Len(col.vals) |->
                 IF col.vals[i].k # "num" THEN col.vals[i]
                 ELSE Num(CASE method = "StandardScaler" -> StandardScale(xs, col.vals[i].n)
                            [] method = "MinMaxScaler" -> MinMaxScale(xs, col.vals[i].n)
                            [] OTHER -> RobustScale(xs, col.vals[i].n))])

(***************************************************************************)
(* Encoding                                                                *)
(***************************************************************************)
\* The encoders refuse a feature that mixes strings and numbers.
MixedTypes(vals) == HasStr(vals) /\ Nums(vals) # <<>>

\* encoder.categories_ of one feature: sorted, the missing value last.
Categories(vals) ==
    SetToSortedSeq({vals[i] : i \in 1..Len(vals)})

CategoryText(v) ==
    CASE v.k = "str" -> v.s
      [] v.k = "num" -> ToString(v.n)
      [] OTHER -> "nan"

\* get_feature_names_out and the indicator columns of one feature.
OneHotColumns(col) ==
    LET cats == Categories(col.vals)
    IN [j \in 1..Len(cats) |->
          MkCol(col.name \o "_" \o CategoryText(cats[j]), "float64",
                [i \in 1..Len(col.vals) |-> IF col.vals[i] = cats[j] THEN Num(1) ELSE Num(0)])]

\* drop(columns=names) then pd.concat([df, encoded_df], axis=1): the new
\* columns go last, whatever labels the frame already carries.
OneHotEncode(df, names) ==
    IF \E i \in 1..Len(names) : MixedTypes(GetCol(df, names[i]).vals) THEN Raise(df)
    ELSE Ok([df EXCEPT !.cols =
                DropColumns(df, names).cols
                \o Flatten([i \in 1..Len(names) |-> OneHotColumns(GetCol(df, names[i]))])])

\* OrdinalEncoder: the position of the category, missing stays missing.
OrdinalCodes(col) ==
    LET cats == SelectSeq(Categories(col.vals), LAMBDA v : ~IsNull(v))
    IN MkCol(col.name, "float64",
             [i \in 1..Len(col.vals) |->
                 IF IsNull(col.vals[i]) THEN NaN
                 ELSE Num((CHOOSE j \in 1..Len(cats) : cats[j] = col.vals[i]) - 1)])

OrdinalEncode(df, names) ==
    IF \E i \in 1..Len(names) : MixedTypes(GetCol(df, names[i]).vals) THEN Raise(df)
    ELSE Ok([df EXCEPT !.cols = [i \in 1..Len(df.cols) |->
                IF InSeq(df.cols[i].name, names) THEN OrdinalCodes(df.cols[i]) ELSE df.cols[i]]])

\* category_encoders.TargetEncoder with its defaults (min_samples_leaf 20,
\* smoothing 10): 1000 / (1 + exp((20 - n) / 10)) for a category seen n
\* times.
SmoothingPermille(n) ==
    CASE n = 1 -> 130
      [] n = 2 -> 142
      [] n = 3 -> 154
      [] OTHER -> 168

\* fit_transform(X, y) raises: no row, a target that is no number
\* throughout, or a target whose index is not the index of X.
TargetEncodingFails(df, target) ==
    \/ NRows(df) = 0
    \/ target.index # df.index
    \/ HasStr(target.vals)
    \/ HasNull(target.vals)

\* The encoded feature: prior * (1 - s) + category mean * s, the prior for
\* a missing cell.
TargetCodes(col, target) ==
    LET N == Len(col.vals)
        ys == [i \in 1..N |-> target.vals[i].n]
        S == SumSeq(ys)
        count(v) == Cardinality({i \in 1..N : col.vals[i] = v})
        sum(v) == SumSeq([i \in 1..N |-> IF col.vals[i] = v THEN ys[i] ELSE 0])
        code(v) == IF IsNull(v) THEN S \div N
                   ELSE (S * count(v) * (1000 - SmoothingPermille(count(v)))
                         + sum(v) * N * SmoothingPermille(count(v)))
                        \div (1000 * N * count(v))
    IN MkCol(col.name, "float64", [i \in 1..N |-> Num(code(col.vals[i]))])

\* df[names] = TargetEncoder(cols=names).fit_transform(df[names], target)
TargetEncode(df, names, target) ==
    IF TargetEncodingFails(df, target) THEN Raise(df)
    ELSE Ok([df EXCEPT !.cols = [i \in 1..Len(df.cols) |->
                IF InSeq(df.cols[i].name, names) THEN TargetCodes(df.cols[i], target)
                ELSE df.cols[i]]])

(***************************************************************************)
(* Binning                                                                 *)
(***************************************************************************)
\* KBinsDiscretizer.fit raises: a missing cell or a string.
BinningFails(col) == HasNull(col.vals) \/ HasStr(col.vals)

\* n_bins * (the inner bin edges), duplicates removed.
InnerEdgesTimes(xs, n_bins, strategy) ==
    LET s == SortSeq(xs, LAMBDA a, b : a < b)
        lo == s[1]
        hi == s[Len(s)]
        all == IF strategy = "uniform"
               THEN {n_bins * lo + j * (hi - lo) : j \in 0..n_bins}
               ELSE {QuantileTimes(s, j, n_bins) : j \in 0..n_bins}
    IN all \ {n_bins * lo, n_bins * hi}

\* discretizer.fit_transform(df[[col]]).astype(int): the number of inner
\* edges at or below the value; a constant feature gets a single bin.
BinCodes(col, n_bins, strategy) ==
    LET xs == Nums(col.vals)
        edges == InnerEdgesTimes(xs, n_bins, strategy)
    IN [i \in 1..Len(col.vals) |->
           Num(Cardinality({e \in edges : e <= n_bins * col.vals[i].n}))]

\* new_col_name = f"{col}_binned"
BinnedName(c) == c \o "_binned"

(***************************************************************************)
(* State                                                                   *)
(***************************************************************************)
VARIABLES
    df,                  \* self.df
    operation_history,   \* self.operation_history
    pipeline_file,       \* the pipeline file on disk, written by save_pipeline
    call,                \* the handler that ran last and how it ended
    session,             \* what the history has been recorded on
    crashed,             \* an exception left a slot uncaught
    counts,              \* how many handler calls and replays ran
    bounds,              \* the envelope of the exploration
    worker,              \* self.thread / self.worker: the profile report in the background
    y                    \* self.y: the confirmed target, a series taken from the dataset

vars ==
    <<df, operation_history, pipeline_file, call, session, crashed, counts, bounds, worker, y>>

\* Bounds of the exploration: handler calls in a session, calls other than
\* load_data in a longer session, replays in a session, columns selected at
\* once.
MaxSteps == 3

MaxOps == 2

MaxReplays == 1

MaxSel == 2

(***************************************************************************)
(* The files load_dataframe can read                                       *)
(***************************************************************************)
Frame(cols) ==
    [none |-> FALSE, index |-> [i \in 1..Len(cols[1].vals) |-> i - 1], cols |-> cols]

\* What pd.read_csv returns for the files at hand: a RangeIndex, int64 for
\* a column of whole numbers, float64 once a cell is empty, object for text.
\* -1 and "" stand for an empty cell.
NumberColumn(name, s) ==
    MkCol(name, IF \E i \in 1..Len(s) : s[i] = -1 THEN "float64" ELSE "int64",
          [i \in 1..Len(s) |-> IF s[i] = -1 THEN NaN ELSE Num(s[i])])

TextColumn(name, s) ==
    MkCol(name, "object", [i \in 1..Len(s) |-> IF s[i] = "" THEN NaN ELSE Str(s[i])])

\* A text column with a missing cell beside an integer column with
\* repeated rows and an extreme value.
TextFile ==
    Frame(<<TextColumn("b", <<"x", "x", "", "x">>), NumberColumn("a", <<1, 1, 1, 9>>)>>)

\* Two numeric columns, one with a missing cell.
NumericFile ==
    Frame(<<NumberColumn("c", <<2, 4, 4, 8>>), NumberColumn("a", <<-1, 5, 5, 7>>)>>)

\* A column beside one that already carries its binned name.
BinnedFile ==
    Frame(<<NumberColumn("c", <<2, 4, 8>>), TextColumn("c_binned", <<"x", "y", "x">>)>>)

\* A column beside one that already carries one of its dummy names.
DummyFile ==
    Frame(<<TextColumn("b", <<"x", "y", "x">>), NumberColumn("b_x", <<7, 8, 7>>)>>)

DataFiles == {TextFile, NumericFile, BinnedFile, DummyFile}

(***************************************************************************)
(* What the user can enter                                                 *)
(***************************************************************************)
\* column_list_widget.selectedItems(): labels in list order; at most
\* bounds.sel items, each label once.
Selections(d) ==
    LET n == Len(d.cols)
        pick(S) == PickRows(Columns(d), [i \in 1..n |-> i \in S])
    IN {pick(S) : S \in {T \in SUBSET (1..n) :
                            /\ Cardinality(T) <= bounds.sel
                            /\ \A i, j \in T : i # j => d.cols[i].name # d.cols[j].name}}

ImputationMethods ==
    {"Remove Rows with Missing Values", "Fill with Mean", "Fill with Median",
     "Fill with Mode", "Fill with Constant", "KNN Imputation"}

ConstantTexts == {"5", "abc"}

TargetTypes == {"int64", "float64", "object"}

MissingThresholds == {20, 25}

OutlierMethods == {"IQR", "Z-score"}

OutlierActions == {"Remove Rows", "Cap/Winsorize"}

ThresholdTexts == {"1", "abc"}

ScalingMethods == {"StandardScaler", "MinMaxScaler"}

EncodingMethods == {"OneHotEncoder", "OrdinalEncoder", "TargetEncoder"}

BinningStrategies == {"quantile", "uniform"}

BinCounts == {2, 3}

\* knn_k_spinbox.value(): its default.
KnnNeighbours == {5}

(***************************************************************************)
(* Bookkeeping of the model                                                *)
(***************************************************************************)
\* What the user was asked and what the user entered: `asked' counts the
\* accept/reject questions the call put to the user.
NoArgs == [asked |-> 0]

\* n: the records a replay dispatched.
CalledWith(op, outcome, args) == [op |-> op, outcome |-> outcome, n |-> 0, args |-> args]

Called(op, outcome) == CalledWith(op, outcome, NoArgs)

Idle == ~crashed

\* A handler other than load_data may run.
CanOperate == Idle /\ counts.steps < bounds.steps /\ counts.ops < bounds.ops

Stepped == [counts EXCEPT !.steps = @ + 1, !.ops = @ + 1]

\* What a handler leaves behind: the frame, the history, how it ended and
\* what passed between it and the user.
FinishWith(op, outcome, d, h, args) ==
    /\ df' = d
    /\ operation_history' = h
    /\ call' = CalledWith(op, outcome, args)
    /\ crashed' = (outcome = "crash")
    /\ counts' = Stepped
    /\ UNCHANGED <<pipeline_file, session, bounds, worker, y>>

Finish(op, outcome, d, h) == FinishWith(op, outcome, d, h, NoArgs)

\* The explorations: short sessions over every file and selection, and a
\* longer session on one file with one column selected at a time.
\* A pipeline file left by an earlier run of the application, whose target
\* was a column the files at hand do not have.
EarlierFile ==
    [exists |-> TRUE,
     ops |-> <<[name |-> "apply_encoding", columns |-> <<"b", "a">>,
                method |-> "TargetEncoder"]>>,
     d0 |-> NoneDF, final |-> NoneDF, pure |-> FALSE]

NoFile == [exists |-> FALSE, ops |-> <<>>, d0 |-> NoneDF, final |-> NoneDF, pure |-> FALSE]

\* A run that finds EarlierFile on the disk.
AfterEarlierRun ==
    [files |-> {TextFile}, sel |-> MaxSel, steps |-> MaxSteps - 1, ops |-> MaxOps]

Explorations ==
    { [files |-> DataFiles, sel |-> MaxSel, steps |-> MaxSteps, ops |-> MaxSteps],
      [files |-> {TextFile}, sel |-> MaxSel - 1, steps |-> MaxSteps + 1, ops |-> MaxOps],
      AfterEarlierRun }

\* self.y = None
NoTarget == [none |-> TRUE, name |-> "", index |-> <<>>, vals |-> <<>>]

\* self.y = self.df[target_name]
TargetOf(d, target_name) ==
    [none |-> FALSE, name |-> target_name, index |-> d.index,
     vals |-> GetCol(d, target_name).vals]

\* status: "idle" (button enabled), "running" (thread started), "emitted"
\* (run has sent its signal); df: the frame handed to ProfileWorker; read:
\* the frame ProfileReport was built from.
NoWorker == [status |-> "idle", df |-> NoneDF, read |-> NoneDF, signal |-> "none"]

Init ==
    /\ df = NoneDF
    /\ operation_history = <<>>
    /\ call = Called("__init__", "committed")
    /\ session = [d0 |-> NoneDF, pure |-> FALSE]
    /\ crashed = FALSE
    /\ counts = [steps |-> 0, ops |-> 0, replays |-> 0]
    /\ bounds \in Explorations
    /\ pipeline_file = IF bounds = AfterEarlierRun THEN EarlierFile ELSE NoFile
    /\ worker = NoWorker
    /\ y = NoTarget

(***************************************************************************)
(* Handlers                                                                *)
(***************************************************************************)
\* load_data as it would be if loading a file started a new history.
LoadDataClearingHistory ==
    /\ Idle
    /\ counts.steps < bounds.steps
    /\ \E loaded \in bounds.files \cup {NoneDF} :
          /\ df' = loaded
          /\ call' = Called("load_data", IF loaded.none THEN "none" ELSE "committed")
          /\ session' = [d0 |-> loaded, pure |-> TRUE]
    /\ operation_history' = <<>>
    /\ counts' = [counts EXCEPT !.steps = @ + 1]
    /\ UNCHANGED <<pipeline_file, crashed, bounds, worker, y>>

\* load_data: self.df = load_dataframe(self), which is None when the dialog
\* is cancelled or the file cannot be read.
load_data ==
    /\ Idle
    /\ counts.steps < bounds.steps
    /\ \E loaded \in bounds.files \cup {NoneDF} :
          /\ df' = loaded
          /\ call' = Called("load_data", IF loaded.none THEN "none" ELSE "committed")
          /\ session' = [d0 |-> loaded, pure |-> operation_history = <<>>]
    /\ counts' = [counts EXCEPT !.steps = @ + 1]
    /\ UNCHANGED <<operation_history, pipeline_file, crashed, bounds, worker, y>>

\* One QMessageBox.question was put to the user.
Asked == [asked |-> 1]

remove_duplicates ==
    /\ CanOperate
    /\ \E reply \in BOOLEAN :
          IF df.none THEN Finish("remove_duplicates", "none", df, operation_history)
          ELSE IF ~reply
          THEN FinishWith("remove_duplicates", "rejected", df, operation_history, Asked)
          ELSE IF DuplicatedSum(df) > 0
          THEN FinishWith("remove_duplicates", "committed",
                          ResetIndex(DropDuplicates(df)),
                          Append(operation_history, [name |-> "remove_duplicates"]), Asked)
          ELSE FinishWith("remove_duplicates", "noop", df, operation_history, Asked)

Knn == "KNN Imputation"

\* op_details of apply_imputation
ImputationRecord(columns, method, text, k) ==
    IF method = "Fill with Constant"
    THEN [name |-> "apply_imputation", columns |-> columns, method |-> method,
          constant_value |-> text]
    ELSE IF method = Knn
    THEN [name |-> "apply_imputation", columns |-> columns, method |-> method, k_value |-> k]
    ELSE [name |-> "apply_imputation", columns |-> columns, method |-> method]

apply_imputation ==
    /\ CanOperate
    /\ \E sel \in Selections(df), method \in ImputationMethods :
       \E text \in (IF method = "Fill with Constant" THEN ConstantTexts ELSE {""}) :
       \E k \in KnnNeighbours :
          LET args == [asked |-> 0, sel |-> sel, method |-> method, text |-> text, k |-> k]
          IN IF df.none THEN Finish("apply_imputation", "none", df, operation_history)
          ELSE IF sel = <<>> THEN Finish("apply_imputation", "invalid", df, operation_history)
          ELSE LET loop == ImputeLoop(df, sel, method, text)
                   numeric_cols == NumericCols(df, sel)
                   knn == KnnImpute(df, numeric_cols)
                   logged == Append(operation_history, ImputationRecord(sel, method, text, k))
               IN IF loop.exc
                  THEN Finish("apply_imputation", "crash", loop.df, operation_history)
                  ELSE IF method # Knn
                  THEN FinishWith("apply_imputation", "committed", ResetIndex(loop.df), logged,
                                  args)
                  ELSE IF numeric_cols = <<>>
                  THEN Finish("apply_imputation", "invalid", df, operation_history)
                  ELSE IF knn.exc
                  THEN Finish("apply_imputation", "crash", knn.df, operation_history)
                  ELSE FinishWith("apply_imputation", "committed", ResetIndex(knn.df), logged,
                                  args)

\* convert_dtype as it would be if the record were appended before astype.
ConvertDtypeLoggingFirst ==
    /\ CanOperate
    /\ \E sel \in Selections(df), target_type \in TargetTypes :
          LET args == [asked |-> 0, sel |-> sel, target_type |-> target_type]
          IN IF df.none THEN Finish("convert_dtype", "none", df, operation_history)
             ELSE IF Len(sel) # 1
             THEN FinishWith("convert_dtype", "invalid", df, operation_history, args)
             ELSE LET col == GetCol(df, sel[1])
                      logged == Append(operation_history,
                                       [name |-> "convert_dtype", column |-> sel[1],
                                        target_type |-> target_type])
                  IN IF AstypeFails(col, target_type)
                     THEN FinishWith("convert_dtype", "error", df, logged, args)
                     ELSE FinishWith("convert_dtype", "committed",
                                     AssignCol(df, Astype(col, target_type)), logged, args)

convert_dtype ==
    /\ CanOperate
    /\ \E sel \in Selections(df), target_type \in TargetTypes :
          LET args == [asked |-> 0, sel |-> sel, target_type |-> target_type]
          IN IF df.none THEN Finish("convert_dtype", "none", df, operation_history)
             ELSE IF Len(sel) # 1
             THEN FinishWith("convert_dtype", "invalid", df, operation_history, args)
             ELSE LET col == GetCol(df, sel[1])
                  IN IF AstypeFails(col, target_type)
                     THEN FinishWith("convert_dtype", "error", df, operation_history, args)
                     ELSE FinishWith("convert_dtype", "committed",
                                     AssignCol(df, Astype(col, target_type)),
                                     Append(operation_history,
                                            [name |-> "convert_dtype", column |-> sel[1],
                                             target_type |-> target_type]),
                                     args)

\* delete_columns as it would be without the guard on an empty selection.
DeleteColumnsUnguarded ==
    /\ CanOperate
    /\ \E sel \in Selections(df), reply \in BOOLEAN :
          IF df.none THEN Finish("delete_columns", "none", df, operation_history)
          ELSE IF ~reply THEN Finish("delete_columns", "rejected", df, operation_history)
          ELSE Finish("delete_columns", IF sel = <<>> THEN "invalid" ELSE "committed",
                      DropColumns(df, sel),
                      Append(operation_history, [name |-> "delete_columns", columns |-> sel]))

delete_columns ==
    /\ CanOperate
    /\ \E sel \in Selections(df), reply \in BOOLEAN :
          IF df.none THEN Finish("delete_columns", "none", df, operation_history)
          ELSE IF sel = <<>> THEN Finish("delete_columns", "invalid", df, operation_history)
          ELSE IF ~reply
          THEN FinishWith("delete_columns", "rejected", df, operation_history, Asked)
          ELSE FinishWith("delete_columns", "committed", DropColumns(df, sel),
                          Append(operation_history,
                                 [name |-> "delete_columns", columns |-> sel]), Asked)

delete_by_threshold ==
    /\ CanOperate
    /\ \E threshold \in MissingThresholds, reply \in BOOLEAN :
          IF df.none THEN Finish("delete_by_threshold", "none", df, operation_history)
          ELSE LET cols_to_drop == ColsOverThreshold(df, threshold)
                   entered(k) == [asked |-> k, threshold |-> threshold]
               IN IF cols_to_drop = <<>>
                  THEN FinishWith("delete_by_threshold", "noop", df, operation_history,
                                  entered(0))
                  ELSE IF ~reply
                  THEN FinishWith("delete_by_threshold", "rejected", df, operation_history,
                                  entered(1))
                  ELSE FinishWith("delete_by_threshold", "committed",
                                  DropColumns(df, cols_to_drop),
                                  Append(operation_history,
                                         [name |-> "delete_by_threshold",
                                          threshold |-> threshold]),
                                  entered(1))

OutlierRecord(numeric_cols, method, t, action) ==
    [name |-> "handle_outliers", columns |-> numeric_cols, method |-> method,
     threshold |-> t, action |-> action]

\* df_modified as it would be if one accepted preview wrote back every
\* capped column.
CapTogether(d, numeric_cols, method, t, accepted) ==
    [d EXCEPT !.cols = [i \in 1..Len(d.cols) |->
        IF InSeq(d.cols[i].name, numeric_cols) /\ accepted # {}
        THEN Capped(d.cols[i], method, t)
        ELSE d.cols[i]]]

\* df_modified after the column loop: the columns whose preview was shown
\* and accepted hold the capped series.
CapAccepted(d, numeric_cols, method, t, accepted) ==
    [d EXCEPT !.cols = [i \in 1..Len(d.cols) |->
        IF InSeq(d.cols[i].name, numeric_cols) /\ d.cols[i].name \in accepted
        THEN Capped(d.cols[i], method, t)
        ELSE d.cols[i]]]

\* The columns whose capping preview is shown: the capped series differs
\* from the column.
Offered(d, numeric_cols, method, t) ==
    SelectSeq(numeric_cols, LAMBDA c : Capped(GetCol(d, c), method, t) # GetCol(d, c))

handle_outliers ==
    /\ CanOperate
    /\ \E sel \in Selections(df), method \in OutlierMethods, action \in OutlierActions :
       \E text \in ThresholdTexts :
          IF df.none THEN Finish("handle_outliers", "none", df, operation_history)
          ELSE IF sel = <<>> \/ NumericCols(df, sel) = <<>> \/ ThresholdTextInvalid(text)
          THEN Finish("handle_outliers", "invalid", df, operation_history)
          ELSE LET numeric_cols == NumericCols(df, sel)
                   t == ParseTenths(text)
                   labels == OutlierLabels(df, numeric_cols, method, t)
                   offered == Offered(df, numeric_cols, method, t)
                   logged == Append(operation_history,
                                    OutlierRecord(numeric_cols, method, t, action))
                   entered(k, accepted) ==
                       [asked |-> k, sel |-> sel, method |-> method, threshold |-> t,
                        action |-> action, accepted |-> accepted,
                        offered |-> IF action = "Remove Rows" THEN <<>> ELSE offered]
               IN IF action = "Remove Rows"
                  THEN IF labels = {}
                       THEN FinishWith("handle_outliers", "noop", df, operation_history,
                                       entered(0, {}))
                       ELSE \E reply \in BOOLEAN :
                            IF reply
                            THEN FinishWith("handle_outliers", "committed",
                                            ResetIndex(DropLabels(df, labels)), logged,
                                            entered(1, {}))
                            ELSE FinishWith("handle_outliers", "rejected", ResetIndex(df),
                                            operation_history, entered(1, {}))
                  ELSE \E accepted \in SUBSET Range(offered) :
                       LET df_modified == CapAccepted(df, numeric_cols, method, t, accepted)
                           args == entered(Len(offered), accepted)
                       IN IF df_modified = df
                          THEN FinishWith("handle_outliers",
                                          IF offered = <<>> THEN "noop" ELSE "rejected",
                                          df, operation_history, args)
                          ELSE FinishWith("handle_outliers", "committed",
                                          ResetIndex(df_modified), logged, args)

\* df_modified as it would be if every numeric column were written back,
\* accepted or not.
ScaleNumericColumns(d, columns, method) ==
    [d EXCEPT !.cols = [i \in 1..Len(d.cols) |->
        IF IsNumericDtype(d.cols[i].dtype) THEN Scaled(d.cols[i], method) ELSE d.cols[i]]]

\* df_modified of apply_scaling: the accepted columns hold the scaled series.
ScaleColumns(d, columns, method) ==
    [d EXCEPT !.cols = [i \in 1..Len(d.cols) |->
        IF InSeq(d.cols[i].name, columns) THEN Scaled(d.cols[i], method) ELSE d.cols[i]]]

apply_scaling ==
    /\ CanOperate
    /\ \E sel \in Selections(df), method \in ScalingMethods :
          IF df.none THEN Finish("apply_scaling", "none", df, operation_history)
          ELSE IF sel = <<>> \/ NumericCols(df, sel) = <<>>
          THEN Finish("apply_scaling", "invalid", df, operation_history)
          ELSE IF NRows(df) = 0
          THEN Finish("apply_scaling", "crash", df, operation_history)
          ELSE \E accepted \in SUBSET Range(NumericCols(df, sel)) :
               LET numeric_cols == NumericCols(df, sel)
                   changed_cols == SelectSeq(numeric_cols, LAMBDA c : c \in accepted)
                   args == [asked |-> Len(numeric_cols), sel |-> sel, method |-> method,
                            accepted |-> accepted]
               IN IF changed_cols = <<>>
                  THEN FinishWith("apply_scaling", "rejected", df, operation_history, args)
                  ELSE FinishWith("apply_scaling", "committed",
                                  ScaleColumns(df, changed_cols, method),
                                  Append(operation_history,
                                         [name |-> "apply_scaling", columns |-> changed_cols,
                                          method |-> method]),
                                  args)

\* encoder.fit_transform and the write back, for the two encoders that need
\* no target; the encoders refuse an empty frame.
Encode(d, columns, method) ==
    IF NRows(d) = 0 THEN Raise(d)
    ELSE IF method = "OneHotEncoder" THEN OneHotEncode(d, columns)
    ELSE OrdinalEncode(d, columns)

\* apply_encoding as it would be if the target stayed in the selection.
ApplyEncodingKeepingTarget ==
    /\ CanOperate
    /\ \E sel \in Selections(df), method \in EncodingMethods :
          LET args == [asked |-> 0, sel |-> sel, method |-> method]
              logged(columns) == Append(operation_history,
                                        [name |-> "apply_encoding", columns |-> columns,
                                         method |-> method])
          IN IF df.none THEN Finish("apply_encoding", "none", df, operation_history)
             ELSE IF sel = <<>>
             THEN FinishWith("apply_encoding", "invalid", df, operation_history, args)
             ELSE IF method = "TargetEncoder"
             THEN IF y.none
                  THEN FinishWith("apply_encoding", "error", df, operation_history, args)
                  ELSE LET r == TargetEncode(df, sel, y)
                       IN IF r.exc
                          THEN FinishWith("apply_encoding", "crash", r.df,
                                          operation_history, args)
                          ELSE FinishWith("apply_encoding", "committed", r.df, logged(sel),
                                          args)
             ELSE LET r == Encode(df, sel, method)
                  IN IF r.exc
                     THEN FinishWith("apply_encoding", "crash", r.df, operation_history, args)
                     ELSE FinishWith("apply_encoding", "committed", r.df, logged(sel), args)

apply_encoding ==
    /\ CanOperate
    /\ \E sel \in Selections(df), method \in EncodingMethods :
          LET args == [asked |-> 0, sel |-> sel, method |-> method]
              logged(columns) == Append(operation_history,
                                        [name |-> "apply_encoding", columns |-> columns,
                                         method |-> method])
              selected_columns == SelectSeq(sel, LAMBDA c : c # y.name)
          IN IF df.none THEN Finish("apply_encoding", "none", df, operation_history)
             ELSE IF sel = <<>>
             THEN FinishWith("apply_encoding", "invalid", df, operation_history, args)
             ELSE IF method = "TargetEncoder"
             THEN IF y.none
                  THEN FinishWith("apply_encoding", "error", df, operation_history, args)
                  ELSE IF selected_columns = <<>>
                  THEN FinishWith("apply_encoding", "invalid", df, operation_history, args)
                  ELSE LET r == TargetEncode(df, selected_columns, y)
                       IN IF r.exc
                          THEN FinishWith("apply_encoding", "crash", r.df,
                                          operation_history, args)
                          ELSE FinishWith("apply_encoding", "committed", r.df,
                                          logged(selected_columns), args)
             ELSE LET r == Encode(df, sel, method)
                  IN IF r.exc
                     THEN FinishWith("apply_encoding", "crash", r.df, operation_history, args)
                     ELSE FinishWith("apply_encoding", "committed", r.df, logged(sel), args)

\* confirm_selection: self.X and self.y are taken from the dataset; self.X
\* is read by the export only.
confirm_selection ==
    /\ CanOperate
    /\ \E feature_names \in Selections(df) :
       \E target_name \in Range(Columns(df)) \cup {"Select a Target"} :
          IF df.none
          THEN /\ call' = Called("confirm_selection", "none")
               /\ UNCHANGED y
          ELSE IF \/ feature_names = <<>>
                  \/ target_name = "Select a Target"
                  \/ InSeq(target_name, feature_names)
          THEN /\ call' = Called("confirm_selection", "invalid")
               /\ UNCHANGED y
          ELSE /\ call' = Called("confirm_selection", "committed")
               /\ y' = TargetOf(df, target_name)
    /\ counts' = Stepped
    /\ UNCHANGED <<df, operation_history, pipeline_file, session, crashed, bounds, worker>>

\* The column loop of apply_binning: each pass writes f"{col}_binned" into
\* self.df; the first failing column raises out of the loop.
RECURSIVE BinLoop(_, _, _, _)
BinLoop(d, columns, n_bins, strategy) ==
    IF columns = <<>> THEN Ok(d)
    ELSE LET col == GetCol(d, Head(columns))
         IN IF NRows(d) = 0 \/ BinningFails(col) THEN Raise(d)
            ELSE BinLoop(SetCol(d, BinnedName(col.name), "int64",
                                BinCodes(col, n_bins, strategy)),
                         Tail(columns), n_bins, strategy)

apply_binning ==
    /\ CanOperate
    /\ \E sel \in Selections(df), n_bins \in BinCounts, strategy \in BinningStrategies :
          IF df.none THEN Finish("apply_binning", "none", df, operation_history)
          ELSE IF sel = <<>> \/ NumericCols(df, sel) = <<>>
          THEN Finish("apply_binning", "invalid", df, operation_history)
          ELSE LET numeric_cols == NumericCols(df, sel)
                   r == BinLoop(df, numeric_cols, n_bins, strategy)
               IN IF r.exc
                  THEN FinishWith("apply_binning", "error", r.df, operation_history,
                                  [asked |-> 0, sel |-> sel, n_bins |-> n_bins,
                                   strategy |-> strategy])
                  ELSE FinishWith("apply_binning", "committed",
                                  DropColumns(r.df, numeric_cols),
                                  Append(operation_history,
                                         [name |-> "apply_binning", columns |-> numeric_cols,
                                          n_bins |-> n_bins, strategy |-> strategy]),
                                  [asked |-> 0, sel |-> sel, n_bins |-> n_bins,
                                   strategy |-> strategy])

(***************************************************************************)
(* Saving and replaying a pipeline                                         *)
(***************************************************************************)
\* save_pipeline: json.dump(self.operation_history) into the chosen file.
\* The record of where the history came from is kept beside it.
save_pipeline ==
    /\ Idle
    /\ \E chosen \in BOOLEAN :
          IF operation_history = <<>> \/ ~chosen
          THEN /\ CanOperate
               /\ call' = Called("save_pipeline",
                                 IF operation_history = <<>> THEN "invalid" ELSE "rejected")
               /\ counts' = Stepped
               /\ UNCHANGED pipeline_file
          ELSE /\ call' = Called("save_pipeline", "committed")
               /\ pipeline_file' = [exists |-> TRUE, ops |-> operation_history,
                                    d0 |-> session.d0, final |-> df, pure |-> session.pure]
               /\ UNCHANGED counts
    /\ UNCHANGED <<df, operation_history, session, crashed, bounds, worker, y>>

Result(d, h, exc) == [df |-> d, hist |-> h, exc |-> exc]

\* The apply_scaling branch: one scaler fitted over the columns still
\* present; a string cell makes fit_transform raise.
ReplayScaling(d, h, op) ==
    LET valid_columns == SelectSeq(op.columns, LAMBDA c : HasCol(d, c))
    IN IF op.columns = <<>> \/ ~KnownScaler(op.method) \/ valid_columns = <<>>
       THEN Result(d, h, FALSE)
       ELSE IF NRows(d) = 0 \/ \E i \in 1..Len(valid_columns) : HasStr(GetCol(d, valid_columns[i]).vals)
       THEN Result(d, h, TRUE)
       ELSE Result(ScaleColumns(d, valid_columns, op.method), h, FALSE)

\* The apply_encoding branch, for the encoders that need no target.
ReplayEncoding(d, h, op) ==
    LET valid_columns == SelectSeq(op.columns, LAMBDA c : HasCol(d, c))
        X_cols == SelectSeq(valid_columns, LAMBDA c : c # y.name)
    IN IF op.columns = <<>> \/ valid_columns = <<>> \/ op.method \notin EncodingMethods
       THEN Result(d, h, FALSE)
       ELSE IF op.method = "TargetEncoder"
       THEN IF y.none \/ ~HasCol(d, y.name) \/ X_cols = <<>>
            THEN Result(d, h, FALSE)
            ELSE LET r == TargetEncode(d, X_cols, TargetOf(d, y.name))
                 IN Result(r.df, h, r.exc)
       ELSE LET r == Encode(d, valid_columns, op.method)
            IN Result(r.df, h, r.exc)

\* The column loop of the apply_binning branch: a failing column is skipped.
RECURSIVE ReplayBinLoop(_, _, _, _)
ReplayBinLoop(d, columns, n_bins, strategy) ==
    IF columns = <<>> THEN d
    ELSE LET col == GetCol(d, Head(columns))
         IN IF NRows(d) = 0 \/ BinningFails(col)
            THEN ReplayBinLoop(d, Tail(columns), n_bins, strategy)
            ELSE ReplayBinLoop(SetCol(d, BinnedName(col.name), "int64",
                                      BinCodes(col, n_bins, strategy)),
                               Tail(columns), n_bins, strategy)

\* The apply_binning branch as it would be if it took the defaults of
\* operation.get instead of the recorded parameters.
ReplayBinningWithDefaults(d, h, op) ==
    LET valid_columns == SelectSeq(op.columns, LAMBDA c : HasCol(d, c))
    IN IF valid_columns = <<>> THEN Result(d, h, FALSE)
       ELSE Result(DropColumns(ReplayBinLoop(d, valid_columns, 5, "quantile"),
                               valid_columns), h, FALSE)

ReplayBinning(d, h, op) ==
    LET valid_columns == SelectSeq(op.columns, LAMBDA c : HasCol(d, c))
    IN IF valid_columns = <<>> THEN Result(d, h, FALSE)
       ELSE Result(DropColumns(ReplayBinLoop(d, valid_columns, op.n_bins, op.strategy),
                               valid_columns), h, FALSE)

ReplayImputation(d, h, op) ==
    IF op.method = Knn
    THEN IF op.columns = <<>> THEN Result(d, h, FALSE)
         ELSE LET r == ReplayKnn(d, op.columns) IN Result(r.df, h, r.exc)
    ELSE LET r == ReplayImputeLoop(d, op.columns, op) IN Result(r.df, h, r.exc)

\* _execute_operation: the dispatcher on operation['name'].
ExecuteOperation(d, h, op) ==
    CASE op.name = "remove_duplicates" -> Result(ResetIndex(DropDuplicates(d)), h, FALSE)
      [] op.name = "apply_imputation" -> ReplayImputation(d, h, op)
      [] op.name = "convert_dtype" ->
            IF ~HasCol(d, op.column) THEN Result(d, h, TRUE)
            ELSE IF AstypeFails(GetCol(d, op.column), op.target_type) THEN Result(d, h, TRUE)
            ELSE Result(AssignCol(d, Astype(GetCol(d, op.column), op.target_type)), h, FALSE)
      [] op.name = "delete_by_threshold" ->
            IF ColsOverThreshold(d, op.threshold) # <<>>
            THEN Result(DropColumns(d, ColsOverThreshold(d, op.threshold)),
                        Append(h, [name |-> "delete_by_threshold", threshold |-> op.threshold]),
                        FALSE)
            ELSE Result(d, h, FALSE)
      [] op.name = "delete_columns" ->
            LET logged == Append(h, [name |-> "delete_columns", columns |-> op.columns])
            IN IF \E i \in 1..Len(op.columns) : ~HasCol(d, op.columns[i])
               THEN Result(d, logged, TRUE)
               ELSE Result(DropColumns(d, op.columns), logged, FALSE)
      [] op.name = "apply_scaling" -> ReplayScaling(d, h, op)
      [] op.name = "apply_encoding" -> ReplayEncoding(d, h, op)
      [] op.name = "apply_binning" -> ReplayBinning(d, h, op)
      [] OTHER -> Result(d, h, FALSE)

\* for op in pipeline_operations: self._execute_operation(op).  An exception
\* leaves the loop for the handler's except clause; n counts the records
\* dispatched.
RECURSIVE ReplayLoop(_, _, _, _)
ReplayLoop(d, h, ops, n) ==
    IF ops = <<>> THEN [df |-> d, hist |-> h, exc |-> FALSE, n |-> n]
    ELSE LET r == ExecuteOperation(d, h, Head(ops))
         IN IF r.exc THEN [df |-> r.df, hist |-> r.hist, exc |-> TRUE, n |-> n + 1]
            ELSE ReplayLoop(r.df, r.hist, Tail(ops), n + 1)

\* load_and_apply_pipeline as it would be if the history were reset as
\* soon as the file is parsed, before the confirmation.
LoadAndApplyResettingFirst ==
    /\ Idle
    /\ \E file \in {"none", "unreadable"} \cup (IF pipeline_file.exists THEN {"saved"} ELSE {}) :
       \E reply \in BOOLEAN :
          IF df.none \/ file # "saved" \/ ~reply
          THEN /\ CanOperate
               /\ call' = IF df.none THEN Called("load_and_apply_pipeline", "none")
                          ELSE IF file = "none" THEN Called("load_and_apply_pipeline", "invalid")
                          ELSE IF file = "unreadable"
                          THEN Called("load_and_apply_pipeline", "error")
                          ELSE CalledWith("load_and_apply_pipeline", "rejected", Asked)
               /\ counts' = Stepped
               /\ operation_history' = IF ~df.none /\ file = "saved" THEN <<>>
                                       ELSE operation_history
               /\ UNCHANGED <<df, session>>
          ELSE LET r == ReplayLoop(df, <<>>, pipeline_file.ops, 0)
               IN /\ counts.replays < MaxReplays
                  /\ df' = r.df
                  /\ operation_history' = r.hist
                  /\ call' = [CalledWith("load_and_apply_pipeline",
                                         IF r.exc THEN "error" ELSE "committed", Asked)
                              EXCEPT !.n = r.n]
                  /\ session' = [d0 |-> df, pure |-> FALSE]
                  /\ counts' = [counts EXCEPT !.replays = @ + 1]
    /\ UNCHANGED <<pipeline_file, crashed, bounds, worker, y>>

\* load_and_apply_pipeline: the file dialog, json.load, the confirmation,
\* the reset of the history and the replay loop.
load_and_apply_pipeline ==
    /\ Idle
    /\ \E file \in {"none", "unreadable"} \cup (IF pipeline_file.exists THEN {"saved"} ELSE {}) :
       \E reply \in BOOLEAN :
          IF df.none \/ file # "saved" \/ ~reply
          THEN /\ CanOperate
               /\ call' = IF df.none THEN Called("load_and_apply_pipeline", "none")
                          ELSE IF file = "none" THEN Called("load_and_apply_pipeline", "invalid")
                          ELSE IF file = "unreadable"
                          THEN Called("load_and_apply_pipeline", "error")
                          ELSE CalledWith("load_and_apply_pipeline", "rejected", Asked)
               /\ counts' = Stepped
               /\ UNCHANGED <<df, operation_history, session>>
          ELSE LET r == ReplayLoop(df, <<>>, pipeline_file.ops, 0)
               IN /\ counts.replays < MaxReplays
                  /\ df' = r.df
                  /\ operation_history' = r.hist
                  /\ call' = [CalledWith("load_and_apply_pipeline",
                                         IF r.exc THEN "error" ELSE "committed", Asked)
                              EXCEPT !.n = r.n]
                  /\ session' = [d0 |-> df, pure |-> FALSE]
                  /\ counts' = [counts EXCEPT !.replays = @ + 1]
    /\ UNCHANGED <<pipeline_file, crashed, bounds, worker, y>>

(***************************************************************************)
(* The quality table and the outlier suggestion                            *)
(***************************************************************************)
RECURSIVE Gcd(_, _)
Gcd(a, b) == IF b = 0 THEN a ELSE Gcd(b, a % b)

Abs(x) == IF x < 0 THEN -x ELSE x

RECURSIVE GcdSeq(_)
GcdSeq(xs) == IF xs = <<>> THEN 0 ELSE Gcd(Abs(Head(xs)), GcdSeq(Tail(xs)))

\* abs(series.skew()) > 1, exactly: skew() is
\* n * sqrt(n - 1) / (n - 2) * m3 / m2 ** 1.5 over the non-missing cells,
\* NaN below three of them and 0 for a constant column.  The deviations
\* are taken up to their common factor, which leaves the ratio as it is.
SkewnessOverOne(vals) ==
    LET xs == Nums(vals)
        n == Len(xs)
        raw == [i \in 1..n |-> n * xs[i] - SumSeq(xs)]
        g == GcdSeq(raw)
        dev == [i \in 1..n |-> raw[i] \div g]
        m2 == SumSeq([i \in 1..n |-> dev[i] * dev[i]])
        m3 == SumSeq([i \in 1..n |-> dev[i] * dev[i] * dev[i]])
    IN /\ n >= 3
       /\ g # 0
       /\ n * n * (n - 1) * m3 * m3 > (n - 2) * (n - 2) * m2 * m2 * m2

\* The text of outlier_suggestion_label as it would be if a selection of
\* several columns were judged by its first column.
SuggestionByFirstColumn(d, sel) ==
    IF d.none THEN "select a numeric column"
    ELSE IF Len(sel) >= 1
    THEN IF IsNumericDtype(GetCol(d, sel[1]).dtype)
         THEN IF SkewnessOverOne(GetCol(d, sel[1]).vals) THEN "consider IQR"
              ELSE "both methods"
         ELSE "not numeric"
    ELSE "select a single numeric column"

\* The text on_column_selection_changed puts into outlier_suggestion_label.
Suggestion(d, sel) ==
    IF d.none THEN "select a numeric column"
    ELSE IF Len(sel) = 1
    THEN IF IsNumericDtype(GetCol(d, sel[1]).dtype)
         THEN IF SkewnessOverOne(GetCol(d, sel[1]).vals) THEN "consider IQR"
              ELSE "both methods"
         ELSE "not numeric"
    ELSE "select a single numeric column"

\* A handler that only shows something: the dataset and the history stay.
Show(op, outcome, args) ==
    /\ CanOperate
    /\ call' = CalledWith(op, outcome, args)
    /\ counts' = Stepped
    /\ UNCHANGED <<df, operation_history, pipeline_file, session, crashed, bounds, worker, y>>

on_column_selection_changed ==
    \E sel \in Selections(df) :
       Show("on_column_selection_changed", IF df.none THEN "none" ELSE "committed",
            [asked |-> 0, sel |-> sel, suggestion |-> Suggestion(df, sel)])

\* unique_values = df.nunique(): the distinct non-missing cells.
Nunique(vals) == Cardinality({vals[i] : i \in {j \in 1..Len(vals) : ~IsNull(vals[j])}})

\* update_quality_report: the quality table and the duplicate-row label.
update_quality_report ==
    IF df.none THEN Show("update_quality_report", "none", NoArgs)
    ELSE Show("update_quality_report", "committed",
              [asked |-> 0,
               missing_values |-> [i \in 1..Len(df.cols) |-> NullCount(df.cols[i].vals)],
               unique_values |-> [i \in 1..Len(df.cols) |-> Nunique(df.cols[i].vals)],
               num_duplicates |-> DuplicatedSum(df)])

(***************************************************************************)
(* The profile report                                                      *)
(***************************************************************************)
\* ProfileWorker.run as it would be if the worker held the live frame.
RunOnLiveFrame ==
    /\ ~crashed
    /\ worker.status = "running"
    /\ \E signal \in {"finished", "error"} :
          /\ worker' = [worker EXCEPT !.status = "emitted", !.read = df, !.signal = signal]
          /\ call' = Called("run", signal)
    /\ UNCHANGED <<df, operation_history, pipeline_file, session, crashed, counts, bounds, y>>

\* generate_profile_report as it would be if the button stayed enabled
\* while a report is being generated.
GenerateWithButtonEnabled ==
    /\ CanOperate
    /\ IF df.none
       THEN /\ call' = Called("generate_profile_report", "none")
            /\ UNCHANGED worker
       ELSE /\ call' = Called("generate_profile_report", "committed")
            /\ worker' = [status |-> "running", df |-> df, read |-> NoneDF, signal |-> "none"]
    /\ counts' = Stepped
    /\ UNCHANGED <<df, operation_history, pipeline_file, session, crashed, bounds, y>>

\* generate_profile_report: the button is disabled while a report is being
\* generated; the worker is given self.df.copy().
generate_profile_report ==
    /\ CanOperate
    /\ worker.status = "idle"
    /\ IF df.none
       THEN /\ call' = Called("generate_profile_report", "none")
            /\ UNCHANGED worker
       ELSE /\ call' = Called("generate_profile_report", "committed")
            /\ worker' = [status |-> "running", df |-> df, read |-> NoneDF, signal |-> "none"]
    /\ counts' = Stepped
    /\ UNCHANGED <<df, operation_history, pipeline_file, session, crashed, bounds, y>>

\* ProfileWorker.run, in the worker thread: ProfileReport(self.df) on the
\* worker's own frame, then the finished or the error signal.
run ==
    /\ ~crashed
    /\ worker.status = "running"
    /\ \E signal \in {"finished", "error"} :
          /\ worker' = [worker EXCEPT !.status = "emitted", !.read = worker.df, !.signal = signal]
          /\ call' = Called("run", signal)
    /\ UNCHANGED <<df, operation_history, pipeline_file, session, crashed, counts, bounds, y>>

\* The slots of the two signals: thread.quit(), thread.wait(), button
\* enabled again.
ReportDelivered(slot, signal) ==
    /\ Idle
    /\ worker.status = "emitted"
    /\ worker.signal = signal
    /\ worker' = NoWorker
    /\ call' = Called(slot, "committed")
    /\ UNCHANGED <<df, operation_history, pipeline_file, session, crashed, counts, bounds, y>>

on_report_finished == ReportDelivered("on_report_finished", "finished")

on_report_error == ReportDelivered("on_report_error", "error")

Next ==
    \/ load_data
    \/ remove_duplicates
    \/ apply_imputation
    \/ convert_dtype
    \/ delete_columns
    \/ delete_by_threshold
    \/ handle_outliers
    \/ apply_scaling
    \/ apply_encoding
    \/ apply_binning
    \/ save_pipeline
    \/ load_and_apply_pipeline
    \/ confirm_selection
    \/ on_column_selection_changed
    \/ update_quality_report
    \/ generate_profile_report
    \/ run
    \/ on_report_finished
    \/ on_report_error

Spec == Init /\ [][Next]_vars

\* The event loop of the main thread delivers a queued signal to its slot.
LiveSpec == Spec /\ WF_vars(on_report_finished) /\ WF_vars(on_report_error)

(***************************************************************************)
(* Properties                                                              *)
(***************************************************************************)
SingleStepOps ==
    {"remove_duplicates", "apply_imputation", "convert_dtype", "delete_columns",
     "delete_by_threshold", "handle_outliers", "apply_scaling", "apply_encoding",
     "apply_binning"}

IsPrefix(s, t) == Len(s) <= Len(t) /\ SubSeq(t, 1, Len(s)) = s

\* load_and_apply_pipeline has just run its loop over the saved records.
Replayed == call.op = "load_and_apply_pipeline" /\ call.n > 0

\* The saved records were all made on one loaded file, and the replay ran
\* on a fresh copy of that file.
ReplayedOnSameData ==
    /\ Replayed
    /\ pipeline_file.pure
    /\ ~pipeline_file.d0.none
    /\ session.d0 = pipeline_file.d0

DeterministicRecord(op) ==
    \/ op.name \in {"remove_duplicates", "delete_columns", "delete_by_threshold",
                    "convert_dtype", "handle_outliers"}
    \/ /\ op.name = "apply_imputation"
       /\ op.method \in {"Fill with Constant", "Remove Rows with Missing Values"}

\* Same columns, same rows, same values; row labels and dtypes aside.
SameData(d1, d2) ==
    /\ d1.none = d2.none
    /\ Len(d1.cols) = Len(d2.cols)
    /\ \A i \in 1..Len(d1.cols) :
          /\ d1.cols[i].name = d2.cols[i].name
          /\ d1.cols[i].vals = d2.cols[i].vals

DenseIndex(d) == d.index = [i \in 1..NRows(d) |-> i - 1]

\* C1: a history of deterministic records made on a file, saved and replayed
\* on a fresh copy of that file, ends in the dataset the original session
\* ended in.
C1_RoundTrip ==
    (/\ ReplayedOnSameData
     /\ \A i \in 1..Len(pipeline_file.ops) : DeterministicRecord(pipeline_file.ops[i]))
    => SameData(df, pipeline_file.final)

\* C2: after a replay in which no record failed or was skipped, the history
\* is the list of records that was replayed.
C2_HistoryRebuilt ==
    (ReplayedOnSameData /\ call.outcome = "committed")
    => operation_history = pipeline_file.ops

\* C3: a replay dispatches every record of the file, also the records after
\* one that failed.
C3_EveryRecordDispatched ==
    Replayed => call.n = Len(pipeline_file.ops)

\* C4: a record that failed during the replay is not in the replayed
\* history: the history holds at most the records dispatched before it.
C4_FailedRecordNotLogged ==
    (Replayed /\ call.outcome = "error") => Len(operation_history) < call.n

\* C5: every handler other than load_and_apply_pipeline leaves the history
\* it found as a prefix of the history it leaves.
C5_AppendOnly ==
    [][call'.op # "load_and_apply_pipeline"
       => IsPrefix(operation_history, operation_history')]_vars

\* C5, its case: a single-step operation appended to a history that already
\* held a record.
C5_Witness ==
    /\ call.op \in SingleStepOps
    /\ call.outcome = "committed"
    /\ Len(operation_history) = 2

\* C6: a single-step operation whose every confirmation is rejected leaves
\* the dataset and the history exactly as it found them.
C6_RejectedChangesNothing ==
    [][(call'.op \in SingleStepOps /\ call'.outcome = "rejected")
       => (df' = df /\ operation_history' = operation_history)]_vars

\* C7: a single-step operation that fails its validation (empty selection,
\* no numeric column, threshold text that is no number) leaves the dataset
\* and the history unchanged and the session alive.
C7_InvalidChangesNothing ==
    [][(call'.op \in SingleStepOps /\ call'.outcome = "invalid")
       => (df' = df /\ operation_history' = operation_history /\ ~crashed')]_vars

\* C7, its case: outlier handling refused its input in a session that had
\* already recorded an operation.
C7_Witness ==
    /\ call.op = "handle_outliers"
    /\ call.outcome = "invalid"
    /\ ~df.none
    /\ operation_history # <<>>

\* C8: a binning call that ends in an error leaves the dataset as it found
\* it, or fully binned: no column stands beside its newly written binned
\* column.
C8_NoTornWrites ==
    [][(call'.op = "apply_binning" /\ call'.outcome = "error")
       => \/ df' = df
          \/ \A i \in 1..Len(df'.cols) :
                ~(/\ HasCol(df', BinnedName(df'.cols[i].name))
                  /\ ~HasCol(df, BinnedName(df'.cols[i].name)))]_vars

\* C9: after a completed row-removing operation, interactive or replayed,
\* the row labels are 0..n-1.
C9_DenseIndex ==
    (/\ call.op \in {"remove_duplicates", "apply_imputation", "handle_outliers",
                     "load_and_apply_pipeline"}
     /\ call.outcome = "committed"
     /\ ~df.none)
    => DenseIndex(df)

\* C10: the column names of the dataset are pairwise distinct.
C10_UniqueColumnNames ==
    \A i, j \in 1..Len(df.cols) : i # j => df.cols[i].name # df.cols[j].name

Capping == call.op = "handle_outliers" /\ call.args.asked > 0 /\ call.args.action = "Cap/Winsorize"

\* The records the last step appended.
Appended(h, hh) == SubSeq(hh, Len(h) + 1, Len(hh))

\* C11: of the single-step operations only scaling and outlier capping put
\* an accept/reject question to the user.
C11_OnlyPreviewsAsk ==
    (call.op \in SingleStepOps /\ call.args.asked > 0)
    => (call.op = "apply_scaling" \/ Capping)

\* C12: a committed scaling or capping call appends one record per accepted
\* column, and no record names a column that was not accepted.
C12_RecordPerAcceptedColumn ==
    [][(/\ call'.outcome = "committed"
        /\ \/ call'.op = "apply_scaling"
           \/ call'.op = "handle_outliers" /\ call'.args.action = "Cap/Winsorize")
       => LET new == Appended(operation_history, operation_history')
          IN /\ Len(new) = Cardinality(call'.args.accepted)
             /\ \A i \in 1..Len(new) : Range(new[i].columns) \subseteq call'.args.accepted]_vars

\* C13: a committed imputation, encoding or binning call appends one record,
\* and the record of a numeric-only kind (mean fill, median fill, KNN
\* imputation, binning) names only numeric columns of the dataset it ran on.
C13_RecordNamesAppliedColumns ==
    [][(/\ call'.outcome = "committed"
        /\ call'.op \in {"apply_imputation", "apply_encoding", "apply_binning"})
       => LET new == Appended(operation_history, operation_history')
          IN /\ Len(new) = 1
             /\ (\/ new[1].name = "apply_binning"
                 \/ /\ new[1].name = "apply_imputation"
                    /\ new[1].method \in {"Fill with Mean", "Fill with Median", Knn})
                => new[1].columns = NumericCols(df, new[1].columns)]_vars

Rows(d) == [r \in 1..NRows(d) |-> RowAt(d, r)]

\* The distinct members of a sequence, each at its first occurrence.
RECURSIVE FirstOccurrences(_)
FirstOccurrences(rows) ==
    IF rows = <<>> THEN <<>>
    ELSE LET n == Len(rows)
             before == FirstOccurrences(SubSeq(rows, 1, n - 1))
         IN IF InSeq(rows[n], before) THEN before ELSE Append(before, rows[n])

Repeats(rows) == {r \in 1..Len(rows) : \E q \in 1..(r - 1) : rows[q] = rows[r]}

ReplayedDedup(d) == ExecuteOperation(d, <<>>, [name |-> "remove_duplicates"]).df

\* C14: duplicate removal, interactive or replayed, keeps the first
\* occurrence of each distinct row in the original order, so the row count
\* drops by the number of rows that repeat an earlier row, and removing
\* duplicates from its result changes nothing.
C14_DedupKeepsFirst ==
    [][/\ (call'.op = "remove_duplicates" /\ call'.outcome = "committed")
          => /\ Rows(df') = FirstOccurrences(Rows(df))
             /\ NRows(df') = NRows(df) - Cardinality(Repeats(Rows(df)))
             /\ Columns(df') = Columns(df)
             /\ ReplayedDedup(df') = df'
       /\ ~df.none
          => /\ Rows(ReplayedDedup(df)) = FirstOccurrences(Rows(df))
             /\ NRows(ReplayedDedup(df)) = NRows(df) - Cardinality(Repeats(Rows(df)))
             /\ ReplayedDedup(ReplayedDedup(df)) = ReplayedDedup(df)]_vars

\* C14, its case: duplicate removal took a repeated row out of a dataset
\* whose repeat is not adjacent to its first occurrence.
C14_Witness ==
    /\ call.op = "remove_duplicates"
    /\ call.outcome = "committed"
    /\ session.d0 = DummyFile
    /\ NRows(df) = 2

Missing(col) == {r \in 1..Len(col.vals) : col.vals[r].k = "nan"}

\* The columns of d that stay under threshold t: missing count / row count
\* x 100 is not strictly greater than t.
KeptUnder(d, t) ==
    SelectSeq(d.cols, LAMBDA col : ~(Cardinality(Missing(col)) * 100 > t * NRows(d)))

ThresholdRecord(t) == [name |-> "delete_by_threshold", threshold |-> t]

ReplayedThreshold(d, t) == ExecuteOperation(d, <<>>, ThresholdRecord(t))

\* C15: threshold deletion, interactive or replayed, removes exactly the
\* columns whose missing percentage is strictly greater than the threshold
\* and logs one record; when no column qualifies the dataset is unchanged
\* and nothing is logged.
C15_StrictThreshold ==
    [][/\ (call'.op = "delete_by_threshold" /\ ~df.none)
          => LET t == call'.args.threshold
                 kept == KeptUnder(df, t)
             IN /\ call'.outcome = "noop" <=> kept = df.cols
                /\ call'.outcome = "noop"
                   => df' = df /\ operation_history' = operation_history
                /\ call'.outcome = "committed"
                   => /\ df' = [df EXCEPT !.cols = kept]
                      /\ operation_history' = Append(operation_history, ThresholdRecord(t))
       /\ ~df.none
          => \A t \in MissingThresholds :
                LET r == ReplayedThreshold(df, t)
                    kept == KeptUnder(df, t)
                IN /\ ~r.exc
                   /\ r.df = [df EXCEPT !.cols = kept]
                   /\ r.hist = IF kept = df.cols THEN <<>> ELSE <<ThresholdRecord(t)>>]_vars

\* C15, its case: threshold deletion found nothing to delete in a dataset
\* with a column whose missing percentage equals the threshold.
C15_Witness ==
    /\ call.op = "delete_by_threshold"
    /\ call.outcome = "noop"
    /\ \E i \in 1..Len(df.cols) :
          /\ Missing(df.cols[i]) # {}
          /\ Cardinality(Missing(df.cols[i])) * 100 = call.args.threshold * NRows(df)

\* C16: dtype conversion with zero or several columns selected is refused
\* with no change; a conversion that fails leaves the dataset and the
\* history unchanged; a record is appended only by a conversion that
\* succeeded, which changes the one selected column and nothing else.
C16_ConversionAllOrNothing ==
    [][(call'.op = "convert_dtype" /\ ~df.none)
       => LET sel == call'.args.sel
              new == Appended(operation_history, operation_history')
          IN /\ Len(sel) # 1 => call'.outcome = "invalid"
             /\ call'.outcome # "committed"
                => df' = df /\ operation_history' = operation_history
             /\ call'.outcome = "committed"
                => /\ new = <<[name |-> "convert_dtype", column |-> sel[1],
                               target_type |-> call'.args.target_type]>>
                   /\ df'.index = df.index
                   /\ Columns(df') = Columns(df)
                   /\ \A i \in 1..Len(df.cols) :
                         IF df.cols[i].name = sel[1]
                         THEN df'.cols[i].dtype = call'.args.target_type
                         ELSE df'.cols[i] = df.cols[i]]_vars

\* C16, its case: the conversion of the one selected column failed in a
\* session that had already recorded an operation.
C16_Witness ==
    /\ call.op = "convert_dtype"
    /\ call.outcome = "error"
    /\ Len(call.args.sel) = 1
    /\ operation_history # <<>>

\* C17: the profile worker is handed the dataset as it is when generation
\* starts; while it runs no handler changes the frame it holds; the report
\* is built from that frame; and neither the start, nor the worker, nor the
\* slots of its signals change the live dataset or the history.
C17_WorkerOnSnapshot ==
    [][/\ (worker.status = "idle" /\ worker'.status = "running") => worker'.df = df
       /\ (worker.status = "running" /\ worker'.status = "running")
          => worker'.df = worker.df
       /\ (worker.status = "running" /\ worker'.status = "emitted")
          => worker'.read = worker.df
       /\ worker'.status # worker.status
          => df' = df /\ operation_history' = operation_history]_vars

\* C17, its case: the report was built after an operation had changed the
\* live dataset under the running worker.
C17_Witness ==
    /\ call.op = "run"
    /\ worker.status = "emitted"
    /\ worker.read # df

\* The statistic a fill method takes from a column.
Statistic(method, vals) ==
    CASE method = "Fill with Mean" -> Mean(vals)
      [] method = "Fill with Median" -> Median(vals)
      [] method = "Fill with Mode" -> Mode(vals)[1]

FittedFills == {"Fill with Mean", "Fill with Median", "Fill with Mode"}

\* The record a call has just appended holds what was entered, and no more.
StoredAsEntered(rec, args) ==
    /\ rec.name = "apply_imputation" /\ rec.method \in FittedFills
       => DOMAIN rec = {"name", "columns", "method"} /\ rec.method = args.method
    /\ rec.name = "apply_scaling"
       => DOMAIN rec = {"name", "columns", "method"} /\ rec.method = args.method
    /\ rec.name = "apply_imputation" /\ rec.method = "Fill with Constant"
       => rec.constant_value = args.text
    /\ rec.name = "apply_imputation" /\ rec.method = Knn => rec.k_value = args.k
    /\ rec.name = "apply_binning"
       => rec.n_bins = args.n_bins /\ rec.strategy = args.strategy

\* dd is d after a successful replay of the single record op: every column
\* of the record is filled, scaled or binned from d itself and from the
\* constants of the record.
Refitted(op, d, dd) ==
    \A i \in 1..Len(op.columns) :
       LET c == op.columns[i]
           col == GetCol(d, c)
       IN HasCol(d, c) =>
          CASE op.name = "apply_imputation" /\ op.method \in FittedFills ->
                  GetCol(dd, c).vals = FillNa(col.vals, Statistic(op.method, col.vals))
            [] op.name = "apply_imputation" /\ op.method = "Fill with Constant" ->
                  GetCol(dd, c).vals = FillNa(col.vals, Coerce(col.dtype, op.constant_value))
            [] op.name = "apply_imputation" /\ op.method = Knn ->
                  IsNumericDtype(col.dtype)
                  => GetCol(dd, c).vals = FillNa(col.vals, Mean(col.vals))
            [] op.name = "apply_scaling" -> GetCol(dd, c) = Scaled(col, op.method)
            [] op.name = "apply_binning" ->
                  ~(NRows(d) = 0 \/ BinningFails(col))
                  => GetCol(dd, BinnedName(c)).vals = BinCodes(col, op.n_bins, op.strategy)
            [] OTHER -> TRUE

\* A replay that ran the one record of the file to its end.
ReplayedOne(c, cc) ==
    /\ cc.op = "load_and_apply_pipeline"
    /\ cc.outcome = "committed"
    /\ cc.n = 1
    /\ Len(pipeline_file.ops) = 1

C19_ScalingCommitsAccepted ==
    [][(call'.op = "apply_scaling" /\ call'.outcome \in {"committed", "rejected"})
       => LET args == call'.args
              numeric_cols == NumericCols(df, args.sel)
              new == Appended(operation_history, operation_history')
          IN /\ args.asked = Len(numeric_cols)
             /\ args.accepted \subseteq Range(numeric_cols)
             /\ df'.index = df.index
             /\ Columns(df') = Columns(df)
             /\ \A i \in 1..Len(df.cols) :
                   df'.cols[i] = IF df.cols[i].name \in args.accepted
                                 THEN Scaled(df.cols[i], args.method)
                                 ELSE df.cols[i]
             /\ new = IF args.accepted = {} THEN <<>>
                      ELSE <<[name |-> "apply_scaling",
                              columns |-> SelectSeq(numeric_cols,
                                                    LAMBDA c : c \in args.accepted),
                              method |-> args.method]>>]_vars

\* C19, its case: of two columns offered one was accepted and one rejected.
C19_Witness ==
    /\ call.op = "apply_scaling"
    /\ call.outcome = "committed"
    /\ call.args.asked = 2
    /\ Cardinality(call.args.accepted) = 1

OutOfBounds(d, columns, method, t, r) ==
    \E i \in 1..Len(columns) : OutlierMask(GetCol(d, columns[i]).vals, method, t)[r]

\* C21: outlier Remove Rows takes the bounds of every selected numeric
\* column from the dataset as it is before the call; when confirmed it
\* removes exactly the rows out of bounds in at least one of these columns
\* and keeps every other row; it finds nothing to remove exactly when no
\* row is out of bounds.
C21_RemoveRowsUnion ==
    [][(/\ call'.op = "handle_outliers"
        /\ call'.outcome \in {"committed", "rejected", "noop"}
        /\ call'.args.action = "Remove Rows")
       => LET args == call'.args
              numeric_cols == NumericCols(df, args.sel)
              keep == [r \in 1..NRows(df) |->
                          ~OutOfBounds(df, numeric_cols, args.method, args.threshold, r)]
          IN /\ call'.outcome = "noop" <=> \A r \in 1..NRows(df) : keep[r]
             /\ call'.outcome = "committed"
                => /\ Columns(df') = Columns(df)
                   /\ \A i \in 1..Len(df.cols) :
                         df'.cols[i].vals = PickRows(df.cols[i].vals, keep)
             /\ call'.outcome # "committed" => SameData(df, df')]_vars

\* C21, its case: rows were removed from a two-column selection in which a
\* removed row is out of bounds in one column only.
C21_Witness ==
    /\ call.op = "handle_outliers"
    /\ call.outcome = "committed"
    /\ call.args.action = "Remove Rows"
    /\ call.args.method = "IQR"
    /\ Len(call.args.sel) = 2
    /\ session.d0 = NumericFile
    /\ Len(operation_history) = 1
    /\ NRows(df) = 3

C23_TargetEncodingNeedsTarget ==
    [][/\ (/\ call'.op = "apply_encoding"
           /\ call'.outcome # "none"
           /\ call'.args.method = "TargetEncoder")
          => LET rest == SelectSeq(call'.args.sel, LAMBDA c : c # y.name)
                 new == Appended(operation_history, operation_history')
             IN /\ (y.none \/ rest = <<>>)
                   => df' = df /\ operation_history' = operation_history
                /\ ~y.none /\ HasCol(df, y.name)
                   => GetCol(df', y.name) = GetCol(df, y.name)
                /\ \A i \in 1..Len(new) : new[i].columns = rest
       /\ (/\ ReplayedOne(call, call')
           /\ pipeline_file.ops[1].name = "apply_encoding"
           /\ pipeline_file.ops[1].method = "TargetEncoder")
          => /\ operation_history' = <<>>
             /\ y.none => df' = df
             /\ ~y.none /\ HasCol(df, y.name)
                => GetCol(df', y.name) = GetCol(df, y.name)]_vars

\* C23, its case: target encoding was applied to a selection that held the
\* confirmed target.
C23_Witness ==
    /\ call.op = "apply_encoding"
    /\ call.outcome = "committed"
    /\ call.args.method = "TargetEncoder"
    /\ InSeq(y.name, call.args.sel)
    /\ operation_history # <<>>

\* The missing cells of column c of d are filled in dd with the text as it
\* was entered, where the text cannot be coerced to the dtype of c.
RawStringFill(d, dd, c, text) ==
    (HasCol(d, c) /\ CoerceFails(GetCol(d, c).dtype, text))
    => /\ HasCol(dd, c)
       /\ GetCol(dd, c).vals = FillNa(GetCol(d, c).vals, Str(text))

\* C24: a constant that cannot be coerced to the dtype of the column fills
\* the missing cells as a raw string, in apply_imputation and in the replay
\* of its record from a one-record file, which runs to its end.
C24_ConstantFallsBack ==
    [][/\ (/\ call'.op = "apply_imputation"
           /\ call'.outcome = "committed"
           /\ call'.args.method = "Fill with Constant")
          => \A c \in Range(call'.args.sel) : RawStringFill(df, df', c, call'.args.text)
       /\ (/\ call'.op = "load_and_apply_pipeline"
           /\ call'.outcome \in {"committed", "error"}
           /\ call'.args.asked = 1
           /\ Len(pipeline_file.ops) = 1
           /\ pipeline_file.ops[1].name = "apply_imputation"
           /\ pipeline_file.ops[1].method = "Fill with Constant"
           /\ \A c \in Range(pipeline_file.ops[1].columns) : HasCol(df, c))
          => /\ call'.outcome = "committed"
             /\ \A c \in Range(pipeline_file.ops[1].columns) :
                   RawStringFill(df, df', c, pipeline_file.ops[1].constant_value)]_vars

\* C25: update_quality_report and on_column_selection_changed leave the
\* dataset and the history as they are, and the suggestion names IQR
\* exactly when one column is selected, it is numeric and the absolute
\* value of its skewness is above one.
C25_ReadOnlyAdvice ==
    [][/\ call'.op \in {"update_quality_report", "on_column_selection_changed"}
          => df' = df /\ operation_history' = operation_history
       /\ call'.op = "on_column_selection_changed"
          => LET sel == call'.args.sel
             IN call'.args.suggestion = "consider IQR"
                <=> /\ ~df.none
                    /\ Len(sel) = 1
                    /\ IsNumericDtype(GetCol(df, sel[1]).dtype)
                    /\ SkewnessOverOne(GetCol(df, sel[1]).vals)]_vars

\* C25, its case: two columns were selected, the first of them skewed, and
\* no method was suggested.
C25_Witness ==
    /\ call.op = "on_column_selection_changed"
    /\ ~df.none
    /\ Len(call.args.sel) = 2
    /\ IsNumericDtype(GetCol(df, call.args.sel[1]).dtype)
    /\ SkewnessOverOne(GetCol(df, call.args.sel[1]).vals)
    /\ call.args.suggestion # "consider IQR"

\* C26: the record a single-step operation has just appended, handed to
\* _execute_operation on the dataset the operation had found, fails or
\* changes that dataset whenever the operation itself changed it.
C26_EveryKindDispatched ==
    [][(call'.op \in SingleStepOps /\ call'.outcome = "committed")
       => LET new == Appended(operation_history, operation_history')
          IN \A i \in 1..Len(new) :
                LET r == ExecuteOperation(df, <<>>, new[i])
                IN SameData(df, df') \/ r.exc \/ ~SameData(df, r.df)]_vars

\* C27: load_and_apply_pipeline leaves the dataset and the history as
\* they are when no dataset is loaded, no file is chosen, the file cannot
\* be parsed or the confirmation is declined; the history changes only
\* in a call that parsed the file and had its confirmation accepted.
C27_NothingBeforeReplay ==
    [][call'.op = "load_and_apply_pipeline"
       => /\ (call'.outcome \in {"none", "invalid", "rejected"} \/ call'.args.asked = 0)
             => df' = df /\ operation_history' = operation_history
          /\ (df' # df \/ operation_history' # operation_history)
             => call'.args.asked = 1 /\ call'.outcome \in {"committed", "error"}]_vars

\* C27, its case: the confirmation was declined in a session that had a
\* history.
C27_Witness ==
    /\ call.op = "load_and_apply_pipeline"
    /\ call.outcome = "rejected"
    /\ operation_history # <<>>
    /\ ~df.none

\* C28: a load_data that was cancelled or failed leaves the dataset that
\* was loaded before as the current dataset.
C28_FailedLoadKeepsDataset ==
    [][(call'.op = "load_data" /\ call'.outcome = "none") => df' = df]_vars

\* C29: remove_duplicates, apply_imputation, handle_outliers and
\* apply_scaling append no record in a call that leaves the dataset as it
\* found it.
C29_NoRecordWithoutChange ==
    [][(/\ call'.op \in {"remove_duplicates", "apply_imputation", "handle_outliers",
                         "apply_scaling"}
        /\ df' = df)
       => operation_history' = operation_history]_vars

\* C30: a worker is started only while none is active, an active worker
\* is retired only by the slot of its finished or error signal, and once a
\* worker has emitted its signal the button is enabled again, as long as
\* the application is alive.
C30_OneWorkerAtATime ==
    /\ [][/\ (call'.op = "generate_profile_report" /\ call'.outcome = "committed")
             => worker.status = "idle" /\ worker'.status = "running"
          /\ (worker.status # "idle" /\ worker'.status = "idle")
             => /\ worker.status = "emitted"
                /\ call'.op = IF worker.signal = "finished" THEN "on_report_finished"
                              ELSE "on_report_error"]_vars
    /\ (worker.status = "emitted") ~> (worker.status = "idle" \/ crashed)

\* C30, its case: the slot of the finished signal has run and the button
\* is enabled again.
C30_Witness ==
    /\ call.op = "on_report_finished"
    /\ worker.status = "idle"
    /\ ~df.none
    /\ ~crashed

====
